---- MODULE Spec2Model ----
(***************************************************************************)
(* Leapfrog integrator of rokgm/HNN-Pendulum                               *)
(* (src/single_pendulum/solvers/leapfrog.py) and its caller in             *)
(* src/single_pendulum/main.py.                                            *)
(*                                                                         *)
(* Times are Python floats (IEEE binary64) and states are float32 torch    *)
(* tensors.  Both are modelled bit-exactly for values in the normal range: *)
(* a number is a dyadic rational  (-1)^s * m * 2^e  whose mantissa m is a  *)
(* little-endian sequence of 15-bit limbs (TLC's integers are too narrow   *)
(* for 53 bits), every operation is computed exactly and then rounded to   *)
(* nearest,                                                                *)
(* ties to even, at 53 or 24 bits of precision.                            *)
(***************************************************************************)
EXTENDS Integers, Sequences, FiniteSets, TLC

(***************************************************************************)
(* Natural numbers as little-endian sequences of 15-bit limbs (the product *)
(* of two limbs fits TLC's integers).  A trimmed sequence has no high zero *)
(* limb; zero is the empty sequence.                                       *)
(***************************************************************************)
Base == 2^15

Max(a, b) == IF a >= b THEN a ELSE b

Min(a, b) == IF a <= b THEN a ELSE b

Limb(a, i) == IF i >= 1 /\ i <= Len(a) THEN a[i] ELSE 0

RECURSIVE Trim(_)
Trim(a) ==
    IF a = <<>> THEN a
    ELSE IF a[Len(a)] = 0 THEN Trim(SubSeq(a, 1, Len(a) - 1))
    ELSE a

RECURSIVE FromInt(_)
FromInt(n) == IF n = 0 THEN <<>> ELSE <<n % Base>> \o FromInt(n \div Base)

RECURSIVE LAddC(_, _, _, _)
LAddC(a, b, i, c) ==
    IF i > Max(Len(a), Len(b))
    THEN (IF c > 0 THEN <<c>> ELSE <<>>)
    ELSE LET v == Limb(a, i) + Limb(b, i) + c
         IN  <<v % Base>> \o LAddC(a, b, i + 1, v \div Base)

LAdd(a, b) == Trim(LAddC(a, b, 1, 0))

\* a - b for a >= b
RECURSIVE LSubC(_, _, _, _)
LSubC(a, b, i, c) ==
    IF i > Len(a) THEN <<>>
    ELSE LET v == Limb(a, i) - Limb(b, i) - c
         IN  <<(v + Base) % Base>> \o LSubC(a, b, i + 1, IF v < 0 THEN 1 ELSE 0)

LSub(a, b) == Trim(LSubC(a, b, 1, 0))

\* -1, 0, 1 as a < b, a = b, a > b (both trimmed)
RECURSIVE LCmpFrom(_, _, _)
LCmpFrom(a, b, i) ==
    IF i = 0 THEN 0
    ELSE IF a[i] > b[i] THEN 1
    ELSE IF a[i] < b[i] THEN -1
    ELSE LCmpFrom(a, b, i - 1)

LCmp(a, b) ==
    IF Len(a) > Len(b) THEN 1
    ELSE IF Len(a) < Len(b) THEN -1
    ELSE LCmpFrom(a, b, Len(a))

\* a * k for a limb k
RECURSIVE LMulLimbC(_, _, _, _)
LMulLimbC(a, k, i, c) ==
    IF i > Len(a)
    THEN (IF c > 0 THEN <<c>> ELSE <<>>)
    ELSE LET v == a[i] * k + c
         IN  <<v % Base>> \o LMulLimbC(a, k, i + 1, v \div Base)

LMulLimb(a, k) == Trim(LMulLimbC(a, k, 1, 0))

LShlLimbs(a, n) ==
    IF a = <<>> \/ n = 0 THEN a
    ELSE [i \in 1..(Len(a) + n) |-> IF i <= n THEN 0 ELSE a[i - n]]

\* a * 2^k
LShl(a, k) == LShlLimbs(LMulLimb(a, 2^(k % 15)), k \div 15)

\* a \div 2^k
LShr(a, k) ==
    LET n == k \div 15
        r == k % 15
    IN  IF n >= Len(a) THEN <<>>
        ELSE Trim([i \in 1..(Len(a) - n) |->
                      (a[i + n] \div 2^r) + (Limb(a, i + n + 1) % 2^r) * 2^(15 - r)])

RECURSIVE LMulFrom(_, _, _)
LMulFrom(a, b, i) ==
    IF i > Len(a) THEN <<>>
    ELSE LAdd(LShlLimbs(LMulLimb(b, a[i]), i - 1), LMulFrom(a, b, i + 1))

LMul(a, b) == LMulFrom(a, b, 1)

\* The number of bits of a trimmed a.
BitLen(a) ==
    IF a = <<>> THEN 0
    ELSE (Len(a) - 1) * 15 + (CHOOSE k \in 1..15 : 2^(k - 1) <= a[Len(a)] /\ a[Len(a)] < 2^k)

\* Bit k of a, the lowest being bit 1.
BitAt(a, k) == (Limb(a, (k - 1) \div 15 + 1) \div 2^((k - 1) % 15)) % 2

\* The number of low zero bits of a trimmed a # 0.
LowZeros(a) ==
    LET j == CHOOSE i \in 1..Len(a) : a[i] # 0 /\ \A l \in 1..(i - 1) : a[l] = 0
        z == CHOOSE k \in 0..14 : a[j] % 2^k = 0 /\ (a[j] \div 2^k) % 2 = 1
    IN  (j - 1) * 15 + z

(***************************************************************************)
(* Dyadic rationals (-1)^s * m * 2^e in canonical form: m odd, or zero.    *)
(***************************************************************************)
Zero == [s |-> 0, m |-> <<>>, e |-> 0]

Canon(s, m, e) ==
    LET tm == Trim(m)
    IN  IF tm = <<>> THEN Zero
        ELSE [s |-> s, m |-> LShr(tm, LowZeros(tm)), e |-> e + LowZeros(tm)]

\* The number (hi * 2^26 + lo) * 2^e, negated when s = 1.
Dyadic(s, hi, lo, e) == Canon(s, LAdd(FromInt(lo), LShl(FromInt(hi), 26)), e)

Neg(u) == IF u = Zero THEN u ELSE [u EXCEPT !.s = 1 - u.s]

XAdd(u, v) ==
    IF u = Zero THEN v
    ELSE IF v = Zero THEN u
    ELSE LET e  == Min(u.e, v.e)
             mu == LShl(u.m, u.e - e)
             mv == LShl(v.m, v.e - e)
             c  == LCmp(mu, mv)
         IN  IF u.s = v.s THEN Canon(u.s, LAdd(mu, mv), e)
             ELSE IF c = 0 THEN Zero
             ELSE IF c > 0 THEN Canon(u.s, LSub(mu, mv), e)
             ELSE Canon(v.s, LSub(mv, mu), e)

XSub(u, v) == XAdd(u, Neg(v))

XMul(u, v) ==
    IF u = Zero \/ v = Zero THEN Zero
    ELSE Canon((u.s + v.s) % 2, LMul(u.m, v.m), u.e + v.e)

Lt(u, v) == XSub(u, v).s = 1

Gt(u, v) == Lt(v, u)

Le(u, v) == ~Lt(v, u)

\* Round to nearest, ties to even, at p bits of precision.  The bits below
\* the dropped one are not all zero, since m is odd.
Round(u, p) ==
    IF BitLen(u.m) <= p THEN u
    ELSE LET k    == BitLen(u.m) - p
             kept == LShr(u.m, k)
             up   == BitAt(u.m, k) = 1 /\ (k > 1 \/ kept[1] % 2 = 1)
         IN  Canon(u.s, IF up THEN LAdd(kept, <<1>>) ELSE kept, u.e + k)

(***************************************************************************)
(* Python float (binary64) and torch.float32 arithmetic.                   *)
(***************************************************************************)
FAdd(u, v) == Round(XAdd(u, v), 53)

FSub(u, v) == Round(XSub(u, v), 53)

F32(u) == Round(u, 24)

FAdd32(u, v) == Round(XAdd(u, v), 24)

\* A Python scalar times a float32 tensor: the scalar is cast to float32 and
\* the product is rounded to float32.
FMul32(c, u) == Round(XMul(F32(c), u), 24)

Half == Dyadic(0, 0, 1, -1)

(***************************************************************************)
(* The values the inputs are drawn from (decimal value in the comment).    *)
(***************************************************************************)
D0_01 == Dyadic(0, 85899345, 61740155, -59)     \* 0.01
D0_015 == Dyadic(0, 16106127, 24159191, -56)    \* 0.015
D0_02 == Dyadic(0, 85899345, 61740155, -58)     \* 0.02
D0_1 == Dyadic(0, 53687091, 13421773, -55)      \* 0.1
D0_2 == Dyadic(0, 53687091, 13421773, -54)      \* 0.2
D0_25 == Dyadic(0, 0, 1, -2)                    \* 0.25
D0_5 == Dyadic(0, 0, 1, -1)                     \* 0.5
D1 == Dyadic(0, 0, 1, 0)                        \* 1.0
D2 == Dyadic(0, 0, 1, 1)                        \* 2.0
DNeg0_3 == Dyadic(1, 80530636, 53687091, -54)   \* -0.3
DNeg0_7 == Dyadic(1, 46976204, 53687091, -52)   \* -0.7
DNeg0_25 == Dyadic(1, 0, 1, -2)                 \* -0.25
DMid == Dyadic(0, 67109451, 67108863, -56)      \* 0x1.000092fffffffp-4 = 0.06250054761767386
DTiny == Dyadic(0, 0, 1, -60)                   \* 2^-60

Case(a, b, c) == [t_start |-> a, t_end |-> b, h |-> c]

\* (t_span, h) arguments of solve with a positive step that is not absorbed.
RegularCases ==
    { Case(Zero, D0_015, D0_01), Case(Zero, D1, D0_01), Case(Zero, D1, D0_1),
      Case(Zero, D1, D0_25), Case(Zero, D0_25, D0_5),
      Case(DNeg0_3, D0_02, D0_2), Case(DNeg0_7, DMid, D0_5) }

\* Finite step sizes that are zero, negative, or lost when added to t.
StalledCases ==
    { Case(Zero, D1, Zero), Case(Zero, D1, DNeg0_25), Case(D1, D2, DTiny) }

TimeCases == RegularCases \cup StalledCases

(***************************************************************************)
(* Tensors.  A tensor value is a state [q, p] of float32 numbers with its  *)
(* autograd flag rg (requires_grad: the value is a node of a graph).       *)
(* The heap maps a tensor's storage to its value, so that aliasing and     *)
(* in-place writes would be visible.                                       *)
(***************************************************************************)
Tensor(q, p, rg) == [q |-> q, p |-> p, rg |-> rg]

Y0Values == { Tensor(D0_5, Zero, FALSE), Tensor(D0_25, DNeg0_25, FALSE) }

\* Before any evaluation, and before solve returns.
NoTensor == Tensor(Zero, Zero, FALSE)

NoReturn == [t |-> <<>>, y |-> <<>>]

Modes == {"HNN", "FFNN", "_", "XYZ"}

MaxSteps == 101

MaxFail == 3

VARIABLES
    pc,             \* "idle", "loop" (inside solve), "done" (returned), "raised"
    err,            \* the exception that reached the caller, or "none"
    entry,          \* "none", "solve" (direct call) or "main" (learn_hamiltonian_and_solve)
    func_type,      \* solve's mode string
    t_start, t_end, \* solve's t_span
    h0,             \* the step size solve was called with
    y0,             \* the caller's initial state tensor (a heap reference)
    failAt,         \* the evaluation of func that raises (0: none does)
    t, h, y,        \* solve's locals (y is a heap reference)
    t_values,       \* solve's list of recorded times
    y_values,       \* solve's list of recorded states (heap references)
    hs,             \* the step size passed to each call of step, in order
    heap,           \* tensor storage
    derivatives,    \* what step's two evaluations of func last returned (NoTensor: nothing yet)
    derivatives_next,
    evals,          \* evaluations of func started so far
    model_training, \* nn.Module.training of the model
    model_params,   \* the model's parameters
    model_at_call,  \* the model's training flag and parameters when solve was called
    ret             \* solve's return value (NoReturn: it has not returned)

vars == <<pc, err, entry, func_type, t_start, t_end, h0, y0, failAt, t, h, y,
          t_values, y_values, hs, heap, derivatives, derivatives_next, evals,
          model_training, model_params, model_at_call, ret>>

(***************************************************************************)
(* The callables handed to solve as func.  The closed-form field and the   *)
(* regression model map [q, p] to [p, -q]; the energy model is             *)
(* H = (q^2 + p^2)/2, whose gradient autograd returns as [q, p].           *)
(***************************************************************************)
vector_field(yv) == Tensor(yv.p, Neg(yv.q), yv.rg)

energy_gradient(yv) == Tensor(yv.q, yv.p, yv.rg)

\* leapfrog.get_vector_field: y is detached and made a leaf that requires
\* grad, and the gradient is taken with create_graph=True, so grad_H and the
\* stacked result are nodes of the graph.
get_vector_field(yv) ==
    LET y_leaf == Tensor(yv.q, yv.p, TRUE)
        grad_H == energy_gradient(y_leaf)
    IN  Tensor(grad_H.p, Neg(grad_H.q), grad_H.rg)

\* The branch step takes for a mode string: anything but "HNN" and "FFNN"
\* falls to the else branch, which calls func directly.
Branch_FFNNDefault(ft) ==
    IF ft = "HNN" THEN "HNN" ELSE IF ft = "_" THEN "direct" ELSE "FFNN"

Branch(ft) ==
    IF ft = "HNN" THEN "HNN" ELSE IF ft = "FFNN" THEN "FFNN" ELSE "direct"

\* One evaluation of the derivative in the branch for mode ft.
Evaluate(ft, yv) ==
    IF Branch(ft) = "HNN" THEN get_vector_field(yv)
    ELSE IF Branch(ft) = "FFNN" THEN [vector_field(yv) EXCEPT !.rg = FALSE]
    ELSE vector_field(yv)

\* The state the second evaluation of step is given: y_next_half, except in
\* the "FFNN" branch, which passes y again (leapfrog.py line 67).
SecondPoint(ft, yv, y_next_half) ==
    IF Branch(ft) = "FFNN" THEN yv ELSE y_next_half

\* model.eval() is called by get_vector_field only.
TrainingAfterEval_Untouched(ft, training) == training

TrainingAfterEval(ft, training) ==
    IF Branch(ft) = "HNN" THEN FALSE ELSE training

FMul(u, v) == Round(XMul(u, v), 53)

\* leapfrog.step, with the values of its locals.
step(ft, yv, hh) ==
    LET derivs      == Evaluate(ft, yv)
        p_half      == FAdd32(yv.p, FMul32(FMul(Half, hh), derivs.p))
        q_next      == FAdd32(yv.q, FMul32(hh, p_half))
        y_next_half == Tensor(q_next, p_half, yv.rg \/ derivs.rg)
        derivs_next == Evaluate(ft, SecondPoint(ft, yv, y_next_half))
        p_next      == FAdd32(p_half, FMul32(FMul(Half, hh), derivs_next.p))
    IN  [derivatives      |-> derivs,
         y_next_half      |-> y_next_half,
         derivatives_next |-> derivs_next,
         y_next           |-> Tensor(q_next, p_next, y_next_half.rg \/ derivs_next.rg)]

\* Where step's result lives: torch.cat allocates a new tensor.
StepStore_InPlace(hp, yref, y_next) ==
    [heap |-> [hp EXCEPT ![yref] = y_next], ref |-> yref]

StepStore(hp, yref, y_next) ==
    [heap |-> Append(hp, y_next), ref |-> Len(hp) + 1]

\* x.clone().detach()
CloneDetach(yv) == Tensor(yv.q, yv.p, FALSE)

\* Lines 102-103: the step size of this iteration.
StepSize_NoShrink(tt, hh, te) == hh

StepSize(tt, hh, te) == IF Gt(FAdd(tt, hh), te) THEN FSub(te, tt) ELSE hh

\* Line 107: t += h
Advance_Stuck(tt, hh) == tt

Advance(tt, hh) == FAdd(tt, hh)

\* Line 113: torch.tensor(t_values, dtype=torch.float32), torch.stack(y_values)
Returned(tv, yv, hp) ==
    [t |-> [i \in 1..Len(tv) |-> F32(tv[i])],
     y |-> [i \in 1..Len(yv) |-> hp[yv[i]]]]

(***************************************************************************)
(* The program.                                                            *)
(***************************************************************************)
Init ==
    /\ pc = "idle"
    /\ err = "none"
    /\ entry = "none"
    /\ func_type = "none"
    /\ t_start = Zero
    /\ t_end = Zero
    /\ h0 = Zero
    /\ y0 = 0
    /\ failAt = 0
    /\ t = Zero
    /\ h = Zero
    /\ y = 0
    /\ t_values = <<>>
    /\ y_values = <<>>
    /\ hs = <<>>
    /\ heap = <<>>
    /\ derivatives = NoTensor
    /\ derivatives_next = NoTensor
    /\ evals = 0
    /\ model_training \in BOOLEAN
    /\ model_params = "initial"
    /\ model_at_call = [training |-> model_training, params |-> "initial"]
    /\ ret = NoReturn

\* solve, lines 93-98, called with func_type ft, y0 the tensor y0v, t_span
\* and h of case c, on a model whose training flag is tr and parameters are
\* ps; the evaluation number fa of func raises.
solve_enter(ft, y0v, c, fa, tr, ps) ==
    /\ pc' = "loop"
    /\ func_type' = ft
    /\ t_start' = c.t_start
    /\ t_end' = c.t_end
    /\ h0' = c.h
    /\ failAt' = fa
    /\ heap' = <<y0v, CloneDetach(y0v), CloneDetach(CloneDetach(y0v))>>
    /\ y0' = 1
    /\ y' = 2
    /\ t' = c.t_start
    /\ h' = c.h
    /\ t_values' = <<c.t_start>>
    /\ y_values' = <<3>>
    /\ hs' = <<>>
    /\ model_training' = tr
    /\ model_params' = ps
    /\ model_at_call' = [training |-> tr, params |-> ps]
    /\ UNCHANGED <<err, derivatives, derivatives_next, evals, ret>>

\* A caller calls leapfrog.solve directly.
solve_call ==
    /\ pc = "idle"
    /\ entry' = "solve"
    /\ \E ft \in Modes, y0v \in Y0Values, c \in TimeCases, fa \in 0..MaxFail :
           solve_enter(ft, y0v, c, fa, model_training, model_params)

\* T_SPAN of constants and the default h = 0.01 of solve.
MainCases == { c \in RegularCases : c.h = D0_01 }

\* main.learn_hamiltonian_and_solve: an unknown model name raises ValueError
\* before anything else; otherwise the Trainer fits the model, model.eval()
\* is called and leapfrog.solve(model, selected_model, Y0, T_SPAN) entered.
learn_hamiltonian_and_solve ==
    /\ pc = "idle"
    /\ entry' = "main"
    /\ \E selected_model \in Modes :
        IF selected_model \notin {"FFNN", "HNN"}
        THEN /\ pc' = "raised"
             /\ err' = "ValueError"
             /\ func_type' = selected_model
             /\ UNCHANGED <<t_start, t_end, h0, y0, failAt, t, h, y, t_values,
                            y_values, hs, heap, derivatives, derivatives_next,
                            evals, model_training, model_params, model_at_call, ret>>
        ELSE \E y0v \in Y0Values, c \in MainCases, fa \in 0..MaxFail :
                 solve_enter(selected_model, y0v, c, fa, FALSE, "trained")

\* An exception raised by an evaluation of func inside step: nothing in step
\* or solve catches it.
RaiseFromStep_ReturnPartial ==
    /\ pc' = "done"
    /\ err' = "none"
    /\ ret' = Returned(t_values, y_values, heap)

RaiseFromStep ==
    /\ pc' = "raised"
    /\ err' = "EvalError"
    /\ ret' = ret

\* One iteration of solve's loop, lines 100-111, with the call of step.
solve_iterate ==
    /\ pc = "loop"
    /\ Lt(t, t_end)
    /\ Len(hs) < MaxSteps
    /\ LET hh == StepSize(t, h, t_end)
           r  == step(func_type, heap[y], hh)
           st == StepStore(heap, y, r.y_next)
       IN  /\ h' = hh
           /\ hs' = Append(hs, hh)
           /\ model_training' = TrainingAfterEval(func_type, model_training)
           /\ IF failAt = evals + 1
              THEN /\ RaiseFromStep
                   /\ evals' = evals + 1
                   /\ UNCHANGED <<derivatives, derivatives_next, t, y,
                                  t_values, y_values, heap>>
              ELSE IF failAt = evals + 2
              THEN /\ RaiseFromStep
                   /\ evals' = evals + 2
                   /\ derivatives' = r.derivatives
                   /\ UNCHANGED <<derivatives_next, t, y, t_values, y_values, heap>>
              ELSE /\ evals' = evals + 2
                   /\ derivatives' = r.derivatives
                   /\ derivatives_next' = r.derivatives_next
                   /\ y' = st.ref
                   /\ t' = Advance(t, hh)
                   /\ t_values' = Append(t_values, Advance(t, hh))
                   /\ heap' = Append(st.heap, CloneDetach(r.y_next))
                   /\ y_values' = Append(y_values, Len(st.heap) + 1)
                   /\ UNCHANGED <<pc, err, ret>>
    /\ UNCHANGED <<entry, func_type, t_start, t_end, h0, y0, failAt,
                   model_params, model_at_call>>

\* Line 113, once the loop condition t < t_end fails.
solve_return ==
    /\ pc = "loop"
    /\ ~Lt(t, t_end)
    /\ pc' = "done"
    /\ ret' = Returned(t_values, y_values, heap)
    /\ UNCHANGED <<err, entry, func_type, t_start, t_end, h0, y0, failAt, t, h, y,
                   t_values, y_values, hs, heap, derivatives, derivatives_next,
                   evals, model_training, model_params, model_at_call>>

Next ==
    \/ solve_call
    \/ learn_hamiltonian_and_solve
    \/ solve_iterate
    \/ solve_return

Spec == Init /\ [][Next]_vars

(***************************************************************************)
(* Properties.                                                             *)
(***************************************************************************)
Last(sq) == sq[Len(sq)]

\* The arguments the claims about the time loop are stated for.
ValidSpan == Lt(t_start, t_end) /\ Gt(h0, Zero)

StepWithinSpan == Le(h0, XSub(t_end, t_start))

IntNum(n) == Canon(0, FromInt(n), 0)

\* ceil((t_end - t_start) / h0) in exact arithmetic, for h0 > 0.
CeilSteps ==
    CHOOSE n \in 0..(MaxSteps + 1) :
        /\ Le(XSub(t_end, t_start), XMul(IntNum(n), h0))
        /\ n > 0 => Lt(XMul(IntNum(n - 1), h0), XSub(t_end, t_start))

\* C1: for t_start < t_end and 0 < h <= t_end - t_start, the trajectory
\* solve returns starts at time t_start and ends at exactly t_end (both read
\* as the float32 values the returned tensor can hold), neither beyond t_end
\* nor short of it.
C1_ExactEndpoint ==
    (pc = "done" /\ ValidSpan /\ StepWithinSpan) =>
        /\ ret.t[1] = F32(t_start)
        /\ Last(ret.t) = F32(t_end)

\* C2: in every mode each step ends with
\* p_next = p_half + 0.5*h*pdot(q_next, p_half): the second derivative is
\* taken at the intermediate state (q_next, p_half).
C2_SecondEvalAtIntermediate ==
    Len(y_values) >= 2 =>
        LET i  == Len(y_values) - 1
            r  == step(func_type, heap[y_values[i]], hs[i])
            d2 == Evaluate(func_type, r.y_next_half)
            yn == heap[y_values[i + 1]]
        IN  /\ yn.q = r.y_next_half.q
            /\ yn.p = FAdd32(r.y_next_half.p, FMul32(FMul(Half, hs[i]), d2.p))

\* C3 as stated: solve takes exactly ceil((t_end - t_start)/h) steps, all of
\* size h except possibly the last.  (That the sizes sum to t_end - t_start
\* is left out: as real numbers it fails by the rounding of t_end - t alone.)
C3_CeilSteps ==
    (pc = "done" /\ ValidSpan) =>
        /\ Len(hs) = CeilSteps
        /\ \A i \in 1..(Len(hs) - 1) : hs[i] = h0

\* At step i, t plus the step size in force exceeds t_end.
Exceeds(i) == Gt(FAdd(t_values[i], IF i = 1 THEN h0 ELSE hs[i - 1]), t_end)

\* C3 as amended: every step before t + h first exceeds t_end (in floating
\* point) has size h, every step from then on has size t_end - t rounded to a
\* double, and each recorded time is the previous one plus the step; the
\* count is 2 for t_span = (0, 0.015), h = 0.01 (the second step being
\* 0.015 - 0.01), 100 for (0, 1), h = 0.01, but 11, not 10, for (0, 1), h = 0.1.
C3_Amended ==
    (pc = "done" /\ ValidSpan) =>
        /\ \A i \in 1..Len(hs) :
              /\ hs[i] = IF Exceeds(i) THEN FSub(t_end, t_values[i]) ELSE h0
              /\ t_values[i + 1] = FAdd(t_values[i], hs[i])
              /\ Exceeds(i) => \A j \in i..Len(hs) : Exceeds(j)
        /\ Len(t_values) = Len(hs) + 1
        /\ (t_start = Zero /\ t_end = D0_015 /\ h0 = D0_01) =>
               Len(hs) = 2 /\ hs[2] = FSub(D0_015, D0_01)
        /\ (t_start = Zero /\ t_end = D1 /\ h0 = D0_01) => Len(ret.t) = 101
        /\ (t_start = Zero /\ t_end = D1 /\ h0 = D0_1) => Len(hs) = 11

C3_Witness ==
    /\ pc = "done"
    /\ ValidSpan
    /\ Len(hs) = 11
    /\ Last(hs) # h0
    /\ CeilSteps = 10

\* C4 as stated: given a mode string that is not a recognized one, solve
\* raises at once: it takes no step and returns no trajectory.
C4_UnknownModeRaises ==
    (entry = "solve" /\ func_type \notin {"HNN", "FFNN", "_"}) =>
        /\ hs = <<>>
        /\ ret = NoReturn

\* C4 as amended: leapfrog.solve raises nothing for a mode string other
\* than "HNN" and "FFNN": it integrates as in the closed-form mode "_" and
\* returns a trajectory (only a failing evaluation of func stops it); it is
\* learn_hamiltonian_and_solve that raises ValueError for an unknown model
\* name, before any evaluation or step.
C4_Amended ==
    /\ (entry = "solve" /\ func_type \notin {"HNN", "FFNN"}) =>
           /\ err # "ValueError"
           /\ (pc = "raised") => (failAt > 0 /\ evals = failAt)
           /\ (pc = "done") => Len(ret.t) = Len(hs) + 1
           /\ Len(y_values) >= 2 =>
                  heap[Last(y_values)] =
                      CloneDetach(step("_", heap[y_values[Len(y_values) - 1]],
                                       hs[Len(y_values) - 1]).y_next)
    /\ (entry = "main" /\ func_type \notin {"HNN", "FFNN"}) =>
           /\ pc = "raised"
           /\ err = "ValueError"
           /\ evals = 0
           /\ hs = <<>>
           /\ ret = NoReturn

C4_Witness ==
    /\ entry = "solve"
    /\ func_type = "XYZ"
    /\ pc = "done"
    /\ Len(ret.t) >= 3

\* C5 as stated: for any finite t_start, t_end and h the loop ends.  A
\* deterministic loop that ends never finishes an iteration with t, h and y
\* as they were when the iteration began.
C5_LoopAlwaysEnds ==
    ~ /\ pc = "loop"
      /\ Lt(t, t_end)
      /\ Len(t_values) >= 2
      /\ t = t_values[Len(t_values) - 1]
      /\ h = (IF Len(hs) = 1 THEN h0 ELSE hs[Len(hs) - 1])
      /\ heap[Last(y_values)] = heap[y_values[Len(y_values) - 1]]

\* The requested step is zero, negative, or too small to change the time tt.
StalledAt(tt) == ~Gt(FAdd(tt, h0), tt)

\* C5 as amended: the loop ends only for a step that moves t.  While h is
\* positive and adding h changes t, every iteration leaves t strictly larger
\* (so t reaches t_end after finitely many doubles, unless an evaluation
\* raises); with h = 0, h < 0, or h so small that t + h = t, an iteration
\* keeps h, leaves t no larger and still below t_end, and the loop goes on.
\* Stated of the last completed iteration, from t_values[i] to t_values[i + 1].
C5_Amended ==
    Len(t_values) >= 2 =>
        LET i     == Len(t_values) - 1
            hprev == IF i = 1 THEN h0 ELSE hs[i - 1]
        IN  /\ ~StalledAt(t_values[i]) => Gt(t_values[i + 1], t_values[i])
            /\ (StalledAt(t_values[i]) /\ hprev = h0) =>
                   /\ hs[i] = h0
                   /\ Le(t_values[i + 1], t_values[i])
                   /\ Lt(t_values[i + 1], t_end)
                   /\ StalledAt(t_values[i + 1])
                   /\ pc # "done"

C5_Witness ==
    /\ pc = "done"
    /\ Len(hs) = 100
    /\ Last(t_values) = t_end

\* C6: a derivative returned by get_vector_field is detached, and so are the
\* states step computes from it.
C6_Detached ==
    func_type = "HNN" =>
        /\ ~derivatives.rg
        /\ ~derivatives_next.rg
        /\ heap # <<>> => ~heap[y].rg

\* C7 as stated: across solve, the model's parameters and its
\* training/evaluation flag are what they were at the call.
C7_ModelUnchanged ==
    entry # "none" =>
        /\ model_params = model_at_call.params
        /\ model_training = model_at_call.training

\* C7 as amended: solve never changes the model's parameters; it leaves the
\* training flag as it was in the "FFNN" and closed-form modes and whenever
\* the model was already in evaluation mode (as after the model.eval() of
\* learn_hamiltonian_and_solve), but in "HNN" mode get_vector_field calls
\* model.eval(), so from the first evaluation on the flag is off.
C7_Amended ==
    entry # "none" =>
        /\ model_params = model_at_call.params
        /\ IF func_type = "HNN" /\ evals > 0
           THEN model_training = FALSE
           ELSE model_training = model_at_call.training
        /\ entry = "main" => model_training = model_at_call.training

C7_Witness ==
    /\ pc = "done"
    /\ func_type = "HNN"
    /\ model_at_call.training
    /\ ~model_training

\* C8: the returned trajectory has as many times as states, and its times
\* increase strictly from one sample to the next.
C8_StrictlyIncreasing ==
    (pc = "done" /\ ValidSpan) =>
        /\ Len(ret.t) = Len(ret.y)
        /\ \A i \in 1..(Len(ret.t) - 1) : Lt(ret.t[i], ret.t[i + 1])

\* C9: when an evaluation of func fails inside step, the error reaches the
\* caller there: no trajectory is returned, the evaluation is not retried,
\* no later evaluation or step happens, and the steps recorded are those
\* completed before the failure.
C9_ErrorPropagates ==
    (failAt > 0 /\ evals >= failAt) =>
        /\ pc = "raised"
        /\ err = "EvalError"
        /\ ret = NoReturn
        /\ evals = failAt
        /\ Len(t_values) - 1 = (failAt - 1) \div 2
        /\ Len(y_values) = Len(t_values)
        /\ ~ENABLED Next

C9_Witness ==
    /\ pc = "raised"
    /\ err = "EvalError"
    /\ failAt = 3
    /\ Len(t_values) = 2

\* C10: states are immutable once produced: no step of the program changes
\* the caller's y0, the tensor step was given, or a state already recorded.
C10_StepImmutable ==
    heap # <<>> =>
        /\ heap'[y0] = heap[y0]
        /\ heap'[y] = heap[y]
        /\ y0' = y0
        /\ \A i \in 1..Len(y_values) :
              y_values'[i] = y_values[i] /\ heap'[y_values[i]] = heap[y_values[i]]
        /\ ret' # NoReturn =>
              \A i \in 1..Len(y_values') : ret'.y[i] = heap'[y_values'[i]]

C10_Immutable == [][C10_StepImmutable]_vars

C10_Witness ==
    /\ pc = "done"
    /\ Len(y_values) >= 3
    /\ heap[y_values[2]] # heap[y_values[3]]
    /\ heap[y0] = heap[y_values[1]]

====
